---- MODULE Spec2Model ----
(***************************************************************************)
(* Model of the telemetry accumulation and rollup engine of                *)
(* DailyRoutine-Monitoring: ActivityMonitor (src/monitor_service.py) and   *)
(* Database (src/database.py).                                             *)
(*                                                                         *)
(* Representation.                                                         *)
(*  - A datetime is a number of seconds since day 0, 00:00:00; a date is   *)
(*    a day number.  SQL NULL / Python None for a time or an aggregate is  *)
(*    NULL.  session_id None is 0 (falsy, never a rowid); a failed         *)
(*    start_session gives -1 as in the code.                               *)
(*  - Sub-scores are carried in units of 1/300 point and the busy index    *)
(*    in units of 1/3000 point, so that the float arithmetic of the code   *)
(*    is exact integer arithmetic here; a stored busy_index is in 1/100    *)
(*    point after round(busy_index, 2).                                    *)
(*  - Thread 0 is the thread that calls start() and stop(); thread i > 0   *)
(*    is the monitor thread created by the i-th successful start().        *)
(*    OldThread is the monitor thread of a start() that came before the    *)
(*    behaviour (SpecRestart); elsewhere it is never created.              *)
(*  - Input callbacks and each numbered step of collect_and_save_data are  *)
(*    atomic steps; the steps of one flush interleave with callbacks and   *)
(*    with the steps of the other threads.                                 *)
(*                                                                         *)
(* Specifications.                                                         *)
(*  - Spec: one process, callbacks, monitor thread, start() and stop().    *)
(*  - SpecRunning: the running monitor, callbacks and monitor thread.      *)
(*  - SpecCrash: the process without user input, killed and relaunched.    *)
(*  - SpecCalc: calculate_busy_index and one tick from any counters.       *)
(*  - SpecRollup: a client of the Database saving records and rolling up.  *)
(*  - SpecSessions: a client opening and closing sessions.                 *)
(*  - SpecQuery: a client saving records and reading a range of them.      *)
(*  - SpecControl: start(), stop() and the monitor thread in one instant.  *)
(*  - SpecMidnight: the monitor started at 23:59 and stopped after 00:00.  *)
(*  - SpecInput: the callbacks and the window sample, one call at a time.  *)
(*  - SpecBoot: a client opening and closing sessions and rolling up.      *)
(*  - SpecNap: a client saving records around noon and rolling up.         *)
(*  - SpecHourly: the monitor loop with the time its sampling and sleep    *)
(*    take; SpecHourlyFair adds weak fairness of the loop.                 *)
(*  - SpecControlFair: SpecControl with weak fairness of the caller of     *)
(*    stop().                                                              *)
(*  - SpecRestart: start() after a stop(), the earlier thread asleep.      *)
(*  - SpecTick: one tick from its scoring on, with the callbacks running.  *)
(***************************************************************************)
EXTENDS Integers, Sequences, FiniteSets, TLC

\* ------------------------------------------------------------------ bounds
MaxEvents == 1
MaxStarts == 1
MaxSessions == 2
MaxFailures == 1
MaxAdvances == 1
StartClock == 122400
MaxCrashes == 1
MaxRecords == 2

\* ------------------------------------------------------- program constants
MONITOR_INTERVAL == 60
IDLE_THRESHOLD == 600
NULL == -1

\* ------------------------------------------------------ environment inputs
TimeSteps == {60, 600, 660}
Positions == {<<0, 0>>, <<3, 4>>}
Titles == {"A", "B"}
WindowCount == 3
\* inputs of the scoring functions: <<distance, clicks, moves, presses>>, <<cpu, memory>>,
\* sub-scores in 1/300 point (-100, 0, 100 and 200 points), seconds since the last activity
CounterSamples == {<<0, 0, 0, 0>>, <<5, 1, 1, 1>>, <<5000, 50, 500, 300>>,
                   <<100000, 1000, 10000, 10000>>}
LoadSamples == {<<0, 0>>, <<40, 60>>, <<100, 100>>}
ScoreSamples == {-30000, 0, 30000, 60000}
QuietSamples == {0, IDLE_THRESHOLD - 1, IDLE_THRESHOLD, IDLE_THRESHOLD + 1}
\* the instants and dates of the rollup client: day 1 10:00 to day 2 13:00
Instant(d, h, m) == d * 86400 + h * 3600 + m * 60
RollupInstants == {Instant(1, 23, 30), Instant(2, 0, 0), Instant(2, 1, 30), Instant(2, 2, 0),
                   Instant(2, 2, 30), Instant(2, 13, 0)}
RollupDates == {1, 2}
QueryInstants == {Instant(1, 10, 0), Instant(1, 23, 30), Instant(2, 0, 0), Instant(2, 2, 0)}

\* ---------------------------------------------------------------- helpers
Min(a, b) == IF a <= b THEN a ELSE b
Max(a, b) == IF a >= b THEN a ELSE b

SetMin(S) == CHOOSE x \in S : \A y \in S : x <= y
SetMax(S) == CHOOSE x \in S : \A y \in S : x >= y

RECURSIVE SumFn(_, _)
SumFn(f, S) ==
    IF S = {} THEN 0
    ELSE LET x == CHOOSE y \in S : TRUE
         IN  f[x] + SumFn(f, S \ {x})

\* floor of the square root, exact on perfect squares
ISqrt(n) == CHOOSE r \in 0..n : r * r <= n /\ (r + 1) * (r + 1) > n

\* datetime fields
DateOf(t) == t \div 86400
HourOf(t) == (t % 86400) \div 3600
MinuteOf(t) == (t % 3600) \div 60
SecondOf(t) == t % 60

\* round(x, 2) of a busy index given in 1/3000 point: the nearest 1/100, ties to even
Round2(b) ==
    LET q == b \div 30
        r == b % 30
    IN  IF r < 15 THEN q
        ELSE IF r > 15 THEN q + 1
        ELSE IF q % 2 = 0 THEN q ELSE q + 1

\* ------------------------------------------------- ActivityMonitor: scoring
mouse_activity_score(dist, clicks, moves) ==
    Min(30000, (180 * dist + 10800 * clicks + 720 * moves) \div MONITOR_INTERVAL)

keyboard_activity_score(presses) ==
    Min(30000, (6000 * presses) \div MONITOR_INTERVAL)

window_activity_score(switches) ==
    Min(30000, (180000 * switches) \div MONITOR_INTERVAL)

system_activity_score(cpu, mem) == 150 * (cpu + mem)

\* the weighted sum without the clamp
calculate_busy_index_unclamped(m, k, w, s) == 3 * m + 3 * k + 2 * w + 2 * s

calculate_busy_index(m, k, w, s) ==
    Min(300000, Max(0, 3 * m + 3 * k + 2 * w + 2 * s))

\* idle after one flush interval without activity
is_idle_interval(t, last) == (t - last) >= MONITOR_INTERVAL

\* the comparison made inclusive
is_idle_inclusive(t, last) == (t - last) >= IDLE_THRESHOLD

is_idle(t, last) == (t - last) > IDLE_THRESHOLD

\* the busy index kept when idle
IdleOverride_kept(busy, idle) == busy

IdleOverride(busy, idle) == IF idle THEN 0 ELSE busy

\* ---------------------------------------------------------------- Database
NoRecord ==
    [timestamp |-> NULL, mouse_distance |-> 0, mouse_clicks |-> 0, mouse_moves |-> 0,
     keyboard_presses |-> 0, window_switches |-> 0, active_windows |-> 0,
     cpu_usage |-> 0, memory_usage |-> 0, busy_index |-> 0, is_idle |-> FALSE,
     active_window_title |-> ""]

\* a plain INSERT: the row of the same timestamp is kept
save_activity_record_insert(recs, rec) == recs \cup {rec}

\* INSERT OR REPLACE under UNIQUE(timestamp)
save_activity_record(recs, rec) ==
    {r \in recs : r.timestamp # rec.timestamp} \cup {rec}

\* INSERT INTO sessions (session_date, start_time); lastrowid is the new length
start_session(sess, t) ==
    Append(sess, [session_date |-> DateOf(t), start_time |-> t, end_time |-> NULL,
                  duration_minutes |-> NULL, active_minutes |-> NULL,
                  idle_minutes |-> NULL, total_mouse_clicks |-> 0,
                  total_key_presses |-> 0, average_busy_index |-> 0])

InRange(recs, lo, hi) == {r \in recs : lo <= r.timestamp /\ r.timestamp <= hi}

AvgBusy(S) ==
    IF S = {} THEN 0
    ELSE SumFn([r \in S |-> r.busy_index], S) \div Cardinality(S)

\* the duration taken from end to start
end_session_reversed(sess, recs, sid, t) ==
    IF sid \notin DOMAIN sess THEN sess
    ELSE LET start == sess[sid].start_time
             S == InRange(recs, start, t)
         IN  [sess EXCEPT ![sid] =
                [@ EXCEPT !.end_time = t,
                          !.duration_minutes = (start - t) \div 60,
                          !.active_minutes = Cardinality({r \in S : ~r.is_idle}),
                          !.idle_minutes = Cardinality({r \in S : r.is_idle}),
                          !.total_mouse_clicks = SumFn([r \in S |-> r.mouse_clicks], S),
                          !.total_key_presses = SumFn([r \in S |-> r.keyboard_presses], S),
                          !.average_busy_index = AvgBusy(S)]]

end_session(sess, recs, sid, t) ==
    IF sid \notin DOMAIN sess THEN sess
    ELSE LET start == sess[sid].start_time
             S == InRange(recs, start, t)
         IN  [sess EXCEPT ![sid] =
                [@ EXCEPT !.end_time = t,
                          !.duration_minutes = (t - start) \div 60,
                          !.active_minutes = Cardinality({r \in S : ~r.is_idle}),
                          !.idle_minutes = Cardinality({r \in S : r.is_idle}),
                          !.total_mouse_clicks = SumFn([r \in S |-> r.mouse_clicks], S),
                          !.total_key_presses = SumFn([r \in S |-> r.keyboard_presses], S),
                          !.average_busy_index = AvgBusy(S)]]

StartOfDay(d) == d * 86400
EndOfDay(d) == (d + 1) * 86400 + 2 * 3600

\* the sessions of the date alone
DaySessions_date(sess, d) == {i \in DOMAIN sess : sess[i].session_date = d}

\* the second branch without the test of the hour: any session of the next date
DaySessions_nextday(sess, d) ==
    {i \in DOMAIN sess : sess[i].session_date = d \/ sess[i].session_date = d + 1}

\* the sessions update_daily_stats(d) selects
DaySessions(sess, d) ==
    {i \in DOMAIN sess :
        \/ sess[i].session_date = d
        \/ sess[i].session_date = d + 1 /\ HourOf(sess[i].start_time) < 2}

\* the totals scan with BETWEEN: the end of the window is included
DayRecords_between(recs, d) == InRange(recs, StartOfDay(d), EndOfDay(d))

\* the records of the totals scan: timestamp >= start_of_day AND timestamp < end_of_day
DayRecords(recs, d) ==
    {r \in recs : r.timestamp >= StartOfDay(d) /\ r.timestamp < EndOfDay(d)}

\* the nap scan over the hours 13 and 14 alone
NapRecords_late(recs, d) ==
    {r \in InRange(recs, StartOfDay(d), EndOfDay(d)) :
        r.is_idle /\ HourOf(r.timestamp) >= 13 /\ HourOf(r.timestamp) <= 14}

\* the nap scan without the test of the hour
NapRecords_anyhour(recs, d) ==
    {r \in InRange(recs, StartOfDay(d), EndOfDay(d)) : r.is_idle}

\* the records of the nap scan: timestamp BETWEEN start_of_day AND end_of_day
NapRecords(recs, d) ==
    {r \in InRange(recs, StartOfDay(d), EndOfDay(d)) :
        r.is_idle /\ HourOf(r.timestamp) >= 12 /\ HourOf(r.timestamp) <= 14}

\* the latest end_time without the cap at the end of the window
DailyRow_uncapped(sess, recs, d) ==
    LET ss == DaySessions(sess, d)
        ends == {sess[i].end_time : i \in {j \in ss : sess[j].end_time # NULL}}
        S == DayRecords(recs, d)
    IN  [stat_date |-> d,
         first_boot_time |-> IF ss = {} THEN NULL ELSE SetMin({sess[i].start_time : i \in ss}),
         last_shutdown_time |-> IF ends = {} THEN NULL ELSE SetMax(ends),
         total_active_minutes |-> Cardinality({r \in S : ~r.is_idle}),
         total_idle_minutes |-> Cardinality({r \in S : r.is_idle}),
         nap_minutes |-> Cardinality(NapRecords(recs, d)),
         total_mouse_clicks |-> SumFn([r \in S |-> r.mouse_clicks], S),
         total_key_presses |-> SumFn([r \in S |-> r.keyboard_presses], S),
         total_window_switches |-> SumFn([r \in S |-> r.window_switches], S),
         total_mouse_distance |-> SumFn([r \in S |-> r.mouse_distance], S),
         average_busy_index |-> AvgBusy(S),
         max_busy_index |-> IF S = {} THEN 0 ELSE SetMax({r.busy_index : r \in S}),
         work_sessions |-> Cardinality(ss)]

\* the row update_daily_stats(d) writes
DailyRow(sess, recs, d) ==
    LET ss == DaySessions(sess, d)
        ends == {Min(sess[i].end_time, EndOfDay(d)) : i \in {j \in ss : sess[j].end_time # NULL}}
        S == DayRecords(recs, d)
    IN  [stat_date |-> d,
         first_boot_time |-> IF ss = {} THEN NULL ELSE SetMin({sess[i].start_time : i \in ss}),
         last_shutdown_time |-> IF ends = {} THEN NULL ELSE SetMax(ends),
         total_active_minutes |-> Cardinality({r \in S : ~r.is_idle}),
         total_idle_minutes |-> Cardinality({r \in S : r.is_idle}),
         nap_minutes |-> Cardinality(NapRecords(recs, d)),
         total_mouse_clicks |-> SumFn([r \in S |-> r.mouse_clicks], S),
         total_key_presses |-> SumFn([r \in S |-> r.keyboard_presses], S),
         total_window_switches |-> SumFn([r \in S |-> r.window_switches], S),
         total_mouse_distance |-> SumFn([r \in S |-> r.mouse_distance], S),
         average_busy_index |-> AvgBusy(S),
         max_busy_index |-> IF S = {} THEN 0 ELSE SetMax({r.busy_index : r \in S}),
         work_sessions |-> Cardinality(ss)]

\* a plain INSERT: the row already there for the date is kept
update_daily_stats_insert(stats, sess, recs, d) == stats \cup {DailyRow(sess, recs, d)}

\* INSERT OR REPLACE under stat_date UNIQUE
update_daily_stats(stats, sess, recs, d) ==
    {s \in stats : s.stat_date # d} \cup {DailyRow(sess, recs, d)}

\* ORDER BY timestamp
RECURSIVE OrderByTimestamp(_)
OrderByTimestamp(S) ==
    IF S = {} THEN <<>>
    ELSE LET first == CHOOSE r \in S : \A q \in S : r.timestamp <= q.timestamp
         IN  <<first>> \o OrderByTimestamp(S \ {first})

\* the range bound made exclusive at the end
get_activity_records_halfopen(recs, start_date, end_date) ==
    OrderByTimestamp({r \in recs : start_date <= r.timestamp /\ r.timestamp < end_date})

\* SELECT * ... WHERE timestamp BETWEEN ? AND ? ORDER BY timestamp
get_activity_records(recs, start_date, end_date) ==
    OrderByTimestamp(InRange(recs, start_date, end_date))

\* ---------------------------------------------------------- engine state
VARIABLES
    now,                 \* datetime.now()
    foreground,          \* the title of the foreground window
    sysload,             \* <<cpu percent, memory percent>> of the machine
    alive,               \* the process is running
    session_id, mouse_distance, mouse_clicks, mouse_moves, keyboard_presses,
    window_switches, last_mouse_pos, last_active_window, mouse_listener,
    keyboard_listener, running, monitor_thread, last_activity_time,
    pc, lv,              \* per thread: position, locals of collect_and_save_data / sleep
    activity_records, sessions, daily_stats,
    calc_args, calc_result,      \* arguments and result of a direct call
    h_clicks, h_moves, h_keys,   \* events recorded by the callbacks of this process
    h_events,            \* user actions delivered
    h_fail,              \* failed queries and database operations
    h_collide,           \* an upsert replaced a record of the same timestamp
    h_starts,            \* successful start() calls of this process
    h_crashes,
    h_adv,               \* clock advances
    h_refused,           \* a start() call of this monitor found it running
    h_stop,              \* the steps the current stop() call has done, in order
    h_hourly             \* the instants at which monitor_loop ran the hourly rollup

env == <<now, foreground, sysload>>
counters == <<mouse_distance, mouse_clicks, mouse_moves, keyboard_presses, window_switches>>
listeners == <<mouse_listener, keyboard_listener>>
monitor == <<session_id, counters, last_mouse_pos, last_active_window, listeners,
             running, monitor_thread, last_activity_time>>
db == <<activity_records, sessions, daily_stats>>
calc == <<calc_args, calc_result>>
h_recorded == <<h_clicks, h_moves, h_keys>>
h_base == <<h_recorded, h_events, h_fail, h_collide, h_starts, h_crashes, h_adv>>
h_trace == <<h_refused, h_stop, h_hourly>>
hist == <<h_base, h_trace>>
vars == <<env, alive, monitor, pc, lv, db, calc, hist>>

\* the thread made by a start() call that precedes the behaviour
OldThread == MaxStarts + 1

Threads == 0..OldThread
MonitorThreads == 1..OldThread

NoLocals ==
    [window |-> "", count |-> 0, cpu |-> 0, mem |-> 0, busy |-> 0, idle |-> FALSE,
     rec |-> NoRecord, saved |-> TRUE, wake |-> 0]

InitPc == [t \in Threads |-> IF t = 0 THEN "ready" ELSE "unborn"]

\* ActivityMonitor.__init__
InitMonitor ==
    /\ session_id = 0
    /\ mouse_distance = 0
    /\ mouse_clicks = 0
    /\ mouse_moves = 0
    /\ keyboard_presses = 0
    /\ window_switches = 0
    /\ last_mouse_pos = <<>>
    /\ last_active_window = <<>>
    /\ mouse_listener = "none"
    /\ keyboard_listener = "none"
    /\ running = FALSE
    /\ monitor_thread = 0
    /\ last_activity_time = now

InitHistory ==
    /\ h_clicks = 0 /\ h_moves = 0 /\ h_keys = 0 /\ h_events = 0
    /\ h_fail = 0 /\ h_collide = FALSE /\ h_starts = 0 /\ h_crashes = 0 /\ h_adv = 0
    /\ h_refused = FALSE /\ h_stop = <<>> /\ h_hourly = {}

Init ==
    /\ now = StartClock
    /\ foreground = "A"
    /\ sysload = <<40, 60>>
    /\ alive = TRUE
    /\ InitMonitor
    /\ pc = InitPc
    /\ lv = [t \in Threads |-> NoLocals]
    /\ activity_records = {}
    /\ sessions = <<>>
    /\ daily_stats = {}
    /\ calc_args = <<>>
    /\ calc_result = 0
    /\ InitHistory

\* ------------------------------------------------------- input callbacks
Distance(p, q) == ISqrt((q[1] - p[1]) * (q[1] - p[1]) + (q[2] - p[2]) * (q[2] - p[2]))

\* the previous position tested by its coordinates: the origin counts as none
on_mouse_move_origin(x, y) ==
    /\ mouse_distance' = IF last_mouse_pos # <<>> /\ last_mouse_pos # <<0, 0>>
                         THEN mouse_distance + Distance(last_mouse_pos, <<x, y>>)
                         ELSE mouse_distance
    /\ last_mouse_pos' = <<x, y>>
    /\ mouse_moves' = mouse_moves + 1
    /\ last_activity_time' = now
    /\ UNCHANGED <<session_id, mouse_clicks, keyboard_presses, window_switches,
                   last_active_window, listeners, running, monitor_thread>>

on_mouse_move(x, y) ==
    /\ mouse_distance' = IF last_mouse_pos # <<>>
                         THEN mouse_distance + Distance(last_mouse_pos, <<x, y>>)
                         ELSE mouse_distance
    /\ last_mouse_pos' = <<x, y>>
    /\ mouse_moves' = mouse_moves + 1
    /\ last_activity_time' = now
    /\ UNCHANGED <<session_id, mouse_clicks, keyboard_presses, window_switches,
                   last_active_window, listeners, running, monitor_thread>>

\* a release counted like a press
on_mouse_click_any(pressed) ==
    /\ mouse_clicks' = mouse_clicks + 1
    /\ last_activity_time' = now
    /\ UNCHANGED <<session_id, mouse_distance, mouse_moves, keyboard_presses,
                   window_switches, last_mouse_pos, last_active_window, listeners,
                   running, monitor_thread>>

on_mouse_click(pressed) ==
    /\ IF pressed
       THEN /\ mouse_clicks' = mouse_clicks + 1
            /\ last_activity_time' = now
       ELSE UNCHANGED <<mouse_clicks, last_activity_time>>
    /\ UNCHANGED <<session_id, mouse_distance, mouse_moves, keyboard_presses,
                   window_switches, last_mouse_pos, last_active_window, listeners,
                   running, monitor_thread>>

on_key_press ==
    /\ keyboard_presses' = keyboard_presses + 1
    /\ last_activity_time' = now
    /\ UNCHANGED <<session_id, mouse_distance, mouse_clicks, mouse_moves, window_switches,
                   last_mouse_pos, last_active_window, listeners, running, monitor_thread>>

\* the mouse listener delivers a move
MouseMove ==
    /\ alive /\ mouse_listener = "running" /\ h_events < MaxEvents
    /\ \E p \in Positions : on_mouse_move(p[1], p[2])
    /\ h_moves' = h_moves + 1
    /\ h_events' = h_events + 1
    /\ UNCHANGED <<env, alive, pc, lv, db, calc, h_clicks, h_keys, h_fail, h_collide,
                   h_starts, h_crashes, h_adv, h_trace>>

\* the mouse listener delivers a press or a release
MouseClick ==
    /\ alive /\ mouse_listener = "running" /\ h_events < MaxEvents
    /\ \E pressed \in BOOLEAN :
        /\ on_mouse_click(pressed)
        /\ h_clicks' = IF pressed THEN h_clicks + 1 ELSE h_clicks
    /\ h_events' = h_events + 1
    /\ UNCHANGED <<env, alive, pc, lv, db, calc, h_moves, h_keys, h_fail, h_collide,
                   h_starts, h_crashes, h_adv, h_trace>>

\* the keyboard listener delivers a key press
KeyPress ==
    /\ alive /\ keyboard_listener = "running" /\ h_events < MaxEvents
    /\ on_key_press
    /\ h_keys' = h_keys + 1
    /\ h_events' = h_events + 1
    /\ UNCHANGED <<env, alive, pc, lv, db, calc, h_clicks, h_moves, h_fail, h_collide,
                   h_starts, h_crashes, h_adv, h_trace>>

\* ------------------------------------------- collect_and_save_data, by step
InFlush(t) == pc[t] \in {"sample", "score", "build", "save", "reset"}

\* get_active_window_info: the window-switch test
WindowSwitched(last, title) == last # <<>> /\ last[1] # "" /\ last[1] # title

\* the outcomes of the foreground-window query and of the system-resource query
WindowQueries == {[ok |-> TRUE, title |-> foreground], [ok |-> FALSE, title |-> ""]}
SysQueries == {[ok |-> TRUE, sys |-> sysload], [ok |-> FALSE, sys |-> <<0, 0>>]}

\* the effect of get_active_window_info on the monitor, given the query's outcome
\* a window query that also counts as user activity
get_active_window_info_active(w) ==
    /\ IF w.ok
       THEN /\ window_switches' = IF WindowSwitched(last_active_window, w.title)
                                  THEN window_switches + 1 ELSE window_switches
            /\ last_active_window' = <<w.title>>
       ELSE UNCHANGED <<window_switches, last_active_window>>
    /\ last_activity_time' = now
    /\ UNCHANGED <<session_id, mouse_distance, mouse_clicks, mouse_moves, keyboard_presses,
                   last_mouse_pos, listeners, running, monitor_thread>>

get_active_window_info(w) ==
    /\ IF w.ok
       THEN /\ window_switches' = IF WindowSwitched(last_active_window, w.title)
                                  THEN window_switches + 1 ELSE window_switches
            /\ last_active_window' = <<w.title>>
       ELSE UNCHANGED <<window_switches, last_active_window>>
    /\ UNCHANGED <<session_id, mouse_distance, mouse_clicks, mouse_moves, keyboard_presses,
                   last_mouse_pos, listeners, running, monitor_thread, last_activity_time>>

\* a failed query ends the tick: no record is built
Sample_abort(t) ==
    /\ alive /\ pc[t] = "sample"
    /\ \E w \in WindowQueries, s \in SysQueries :
        /\ LET failed == (IF w.ok THEN 0 ELSE 1) + (IF s.ok THEN 0 ELSE 1)
           IN  /\ h_fail + failed <= MaxFailures
               /\ h_fail' = h_fail + failed
               /\ pc' = [pc EXCEPT ![t] = IF failed = 0 THEN "score"
                                          ELSE IF t = 0 THEN "end_session" ELSE "hourly"]
        /\ get_active_window_info(w)
        /\ lv' = [lv EXCEPT ![t].window = w.title,
                            ![t].count = IF w.ok THEN WindowCount ELSE 0,
                            ![t].cpu = s.sys[1],
                            ![t].mem = s.sys[2]]
    /\ UNCHANGED <<env, alive, db, calc, h_recorded, h_events, h_collide, h_starts,
                   h_crashes, h_adv, h_trace>>

\* get_active_window_info() and get_system_usage(); a failed query gives the defaults
Sample(t) ==
    /\ alive /\ pc[t] = "sample"
    /\ \E w \in WindowQueries, s \in SysQueries :
        /\ LET failed == (IF w.ok THEN 0 ELSE 1) + (IF s.ok THEN 0 ELSE 1)
           IN  /\ h_fail + failed <= MaxFailures
               /\ h_fail' = h_fail + failed
        /\ get_active_window_info(w)
        /\ lv' = [lv EXCEPT ![t].window = w.title,
                            ![t].count = IF w.ok THEN WindowCount ELSE 0,
                            ![t].cpu = s.sys[1],
                            ![t].mem = s.sys[2]]
    /\ pc' = [pc EXCEPT ![t] = "score"]
    /\ UNCHANGED <<env, alive, db, calc, h_recorded, h_events, h_collide, h_starts,
                   h_crashes, h_adv, h_trace>>

\* the busy index of the counters as they are read now
CurrentBusy(cpu, mem) ==
    calculate_busy_index(
        mouse_activity_score(mouse_distance, mouse_clicks, mouse_moves),
        keyboard_activity_score(keyboard_presses),
        window_activity_score(window_switches),
        system_activity_score(cpu, mem))

\* the scores, calculate_busy_index, is_idle and the idle override
Score(t) ==
    /\ alive /\ pc[t] = "score"
    /\ LET idle == is_idle(now, last_activity_time)
       IN  lv' = [lv EXCEPT ![t].idle = idle,
                            ![t].busy = IdleOverride(CurrentBusy(lv[t].cpu, lv[t].mem), idle)]
    /\ pc' = [pc EXCEPT ![t] = "build"]
    /\ UNCHANGED <<env, alive, monitor, db, calc, hist>>

\* the record dictionary, from the counters as they are when it is built
BuildRecord(t) ==
    [timestamp |-> now,
     mouse_distance |-> mouse_distance,
     mouse_clicks |-> mouse_clicks,
     mouse_moves |-> mouse_moves,
     keyboard_presses |-> keyboard_presses,
     window_switches |-> window_switches,
     active_windows |-> lv[t].count,
     cpu_usage |-> lv[t].cpu,
     memory_usage |-> lv[t].mem,
     busy_index |-> Round2(lv[t].busy),
     is_idle |-> lv[t].idle,
     active_window_title |-> lv[t].window]

Build(t) ==
    /\ alive /\ pc[t] = "build"
    /\ lv' = [lv EXCEPT ![t].rec = BuildRecord(t)]
    /\ pc' = [pc EXCEPT ![t] = "save"]
    /\ UNCHANGED <<env, alive, monitor, db, calc, hist>>

\* a failed write ends the thread
Save_fatal(t) ==
    /\ alive /\ pc[t] = "save"
    /\ \E ok \in BOOLEAN :
        /\ (~ok => h_fail < MaxFailures)
        /\ activity_records' = IF ok THEN save_activity_record(activity_records, lv[t].rec)
                               ELSE activity_records
        /\ h_collide' = (h_collide \/ (ok /\ \E r \in activity_records :
                                                r.timestamp = lv[t].rec.timestamp))
        /\ h_fail' = IF ok THEN h_fail ELSE h_fail + 1
        /\ lv' = [lv EXCEPT ![t].saved = ok]
        /\ pc' = [pc EXCEPT ![t] = IF ok THEN "reset" ELSE "exited"]
    /\ h_stop' = IF t = 0 THEN Append(h_stop, "flush") ELSE h_stop
    /\ UNCHANGED <<env, alive, monitor, sessions, daily_stats, calc, h_recorded, h_events,
                   h_starts, h_crashes, h_adv, h_refused, h_hourly>>

\* self.db.save_activity_record(record); the result is not looked at
Save(t) ==
    /\ alive /\ pc[t] = "save"
    /\ \E ok \in BOOLEAN :
        /\ (~ok => h_fail < MaxFailures)
        /\ activity_records' = IF ok THEN save_activity_record(activity_records, lv[t].rec)
                               ELSE activity_records
        /\ h_collide' = (h_collide \/ (ok /\ \E r \in activity_records :
                                                r.timestamp = lv[t].rec.timestamp))
        /\ h_fail' = IF ok THEN h_fail ELSE h_fail + 1
        /\ lv' = [lv EXCEPT ![t].saved = ok]
    /\ h_stop' = IF t = 0 THEN Append(h_stop, "flush") ELSE h_stop
    /\ pc' = [pc EXCEPT ![t] = "reset"]
    /\ UNCHANGED <<env, alive, monitor, sessions, daily_stats, calc, h_recorded, h_events,
                   h_starts, h_crashes, h_adv, h_refused, h_hourly>>

\* reset_counters that also forgets the last mouse position
reset_counters_position ==
    /\ mouse_distance' = 0
    /\ mouse_clicks' = 0
    /\ mouse_moves' = 0
    /\ keyboard_presses' = 0
    /\ window_switches' = 0
    /\ last_mouse_pos' = <<>>
    /\ UNCHANGED <<session_id, last_active_window, listeners, running, monitor_thread,
                   last_activity_time>>

\* the effect of reset_counters on the monitor
reset_counters ==
    /\ mouse_distance' = 0
    /\ mouse_clicks' = 0
    /\ mouse_moves' = 0
    /\ keyboard_presses' = 0
    /\ window_switches' = 0
    /\ UNCHANGED <<session_id, last_mouse_pos, last_active_window, listeners, running,
                   monitor_thread, last_activity_time>>

\* self.reset_counters(), whatever save_activity_record returned
Reset(t) ==
    /\ alive /\ pc[t] = "reset"
    /\ reset_counters
    /\ pc' = [pc EXCEPT ![t] = IF t = 0 THEN "end_session" ELSE "hourly"]
    /\ lv' = [lv EXCEPT ![t] = NoLocals]
    /\ UNCHANGED <<env, alive, db, calc, hist>>

\* ------------------------------------------------------------- lifecycle
\* start() without the running test
Start_unguarded ==
    /\ alive /\ pc[0] = "ready"
    /\ Len(sessions) < MaxSessions
    /\ h_refused' = (h_refused \/ running)
    /\ sessions' = start_session(sessions, now)
    /\ session_id' = Len(sessions) + 1
    /\ pc' = [pc EXCEPT ![0] = "start_threads"]
    /\ UNCHANGED <<env, alive, counters, last_mouse_pos, last_active_window, listeners,
                   running, monitor_thread, last_activity_time, lv, activity_records,
                   daily_stats, calc, h_base, h_stop, h_hourly>>

\* start() without the test of the session id: a failed start_session goes on
Start_nocheck ==
    /\ alive /\ pc[0] = "ready"
    /\ h_refused' = (h_refused \/ running)
    /\ IF running
       THEN UNCHANGED <<session_id, sessions, pc, h_fail>>
       ELSE /\ h_starts < MaxStarts /\ Len(sessions) < MaxSessions
            /\ \E ok \in BOOLEAN :
                /\ (~ok => h_fail < MaxFailures)
                /\ IF ok
                   THEN /\ sessions' = start_session(sessions, now)
                        /\ session_id' = Len(sessions) + 1
                        /\ pc' = [pc EXCEPT ![0] = "start_threads"]
                        /\ UNCHANGED h_fail
                   ELSE /\ session_id' = -1
                        /\ h_fail' = h_fail + 1
                        /\ pc' = [pc EXCEPT ![0] = "start_threads"]
                        /\ UNCHANGED sessions
    /\ UNCHANGED <<env, alive, counters, last_mouse_pos, last_active_window, listeners,
                   running, monitor_thread, last_activity_time, lv, activity_records,
                   daily_stats, calc, h_recorded, h_events, h_collide, h_starts,
                   h_crashes, h_adv, h_stop, h_hourly>>

\* start(): the running test and db.start_session()
Start ==
    /\ alive /\ pc[0] = "ready"
    /\ h_refused' = (h_refused \/ running)
    /\ IF running
       THEN UNCHANGED <<session_id, sessions, pc, h_fail>>
       ELSE /\ h_starts < MaxStarts /\ Len(sessions) < MaxSessions
            /\ \E ok \in BOOLEAN :
                /\ (~ok => h_fail < MaxFailures)
                /\ IF ok
                   THEN /\ sessions' = start_session(sessions, now)
                        /\ session_id' = Len(sessions) + 1
                        /\ pc' = [pc EXCEPT ![0] = "start_threads"]
                        /\ UNCHANGED h_fail
                   ELSE /\ session_id' = -1
                        /\ h_fail' = h_fail + 1
                        /\ UNCHANGED <<sessions, pc>>
    /\ UNCHANGED <<env, alive, counters, last_mouse_pos, last_active_window, listeners,
                   running, monitor_thread, last_activity_time, lv, activity_records,
                   daily_stats, calc, h_recorded, h_events, h_collide, h_starts,
                   h_crashes, h_adv, h_stop, h_hourly>>

\* start(): the listeners, the running flag and the monitor thread
StartThreads ==
    /\ alive /\ pc[0] = "start_threads"
    /\ mouse_listener' = "running"
    /\ keyboard_listener' = "running"
    /\ running' = TRUE
    /\ monitor_thread' = h_starts + 1
    /\ h_starts' = h_starts + 1
    /\ pc' = [pc EXCEPT ![0] = "ready", ![h_starts + 1] = "loop"]
    /\ UNCHANGED <<env, alive, session_id, counters, last_mouse_pos, last_active_window,
                   last_activity_time, lv, db, calc, h_recorded, h_events, h_fail,
                   h_collide, h_crashes, h_adv, h_trace>>

\* stop() without the final flush
StopBegin_noflush ==
    /\ alive /\ pc[0] = "ready"
    /\ IF running
       THEN /\ running' = FALSE
            /\ pc' = [pc EXCEPT ![0] = "end_session"]
            /\ h_refused' = FALSE
            /\ h_stop' = <<>>
       ELSE UNCHANGED <<running, pc, h_refused, h_stop>>
    /\ UNCHANGED <<env, alive, session_id, counters, last_mouse_pos, last_active_window,
                   listeners, monitor_thread, last_activity_time, lv, db, calc, h_base,
                   h_hourly>>

\* stop(): the running test, running = False; the final flush follows on thread 0
StopBegin ==
    /\ alive /\ pc[0] = "ready"
    /\ IF running
       THEN /\ running' = FALSE
            /\ pc' = [pc EXCEPT ![0] = "sample"]
            /\ h_refused' = FALSE
            /\ h_stop' = <<>>
       ELSE UNCHANGED <<running, pc, h_refused, h_stop>>
    /\ UNCHANGED <<env, alive, session_id, counters, last_mouse_pos, last_active_window,
                   listeners, monitor_thread, last_activity_time, lv, db, calc, h_base,
                   h_hourly>>

\* stop(): db.end_session(self.session_id)
EndSession ==
    /\ alive /\ pc[0] = "end_session"
    /\ IF session_id # 0
       THEN /\ sessions' = end_session(sessions, activity_records, session_id, now)
            /\ pc' = [pc EXCEPT ![0] = "rollup"]
            /\ h_stop' = Append(h_stop, "close")
       ELSE /\ UNCHANGED <<sessions, h_stop>>
            /\ pc' = [pc EXCEPT ![0] = "stop_listeners"]
    /\ UNCHANGED <<env, alive, monitor, lv, activity_records, daily_stats, calc, h_base,
                   h_refused, h_hourly>>

\* stop(): db.update_daily_stats(datetime.now().date())
StopRollup ==
    /\ alive /\ pc[0] = "rollup"
    /\ daily_stats' = update_daily_stats(daily_stats, sessions, activity_records, DateOf(now))
    /\ pc' = [pc EXCEPT ![0] = "stop_listeners"]
    /\ h_stop' = Append(h_stop, "rollup")
    /\ UNCHANGED <<env, alive, monitor, lv, activity_records, sessions, calc, h_base,
                   h_refused, h_hourly>>

\* stop(): both listeners are stopped
StopListeners ==
    /\ alive /\ pc[0] = "stop_listeners"
    /\ mouse_listener' = IF mouse_listener = "none" THEN "none" ELSE "stopped"
    /\ keyboard_listener' = IF keyboard_listener = "none" THEN "none" ELSE "stopped"
    /\ pc' = [pc EXCEPT ![0] = "join"]
    /\ h_stop' = Append(h_stop, "unsubscribe")
    /\ UNCHANGED <<env, alive, session_id, counters, last_mouse_pos, last_active_window,
                   running, monitor_thread, last_activity_time, lv, db, calc, h_base,
                   h_refused, h_hourly>>

\* stop(): monitor_thread.join() without its timeout returns only when the thread has ended
Join_wait ==
    /\ alive /\ pc[0] = "join"
    /\ pc[monitor_thread] = "exited"
    /\ pc' = [pc EXCEPT ![0] = "ready"]
    /\ UNCHANGED <<env, alive, monitor, lv, db, calc, hist>>

\* stop(): monitor_thread.join(timeout=5) returns when the thread has ended or on timeout
Join ==
    /\ alive /\ pc[0] = "join"
    /\ pc' = [pc EXCEPT ![0] = "ready"]
    /\ UNCHANGED <<env, alive, monitor, lv, db, calc, hist>>

\* get_current_status(): the snapshot returned to the caller
get_current_status ==
    [running          |-> running,
     session_id       |-> session_id,
     mouse_clicks     |-> mouse_clicks,
     keyboard_presses |-> keyboard_presses,
     window_switches  |-> window_switches,
     is_idle          |-> is_idle(now, last_activity_time),
     last_activity    |-> last_activity_time]

\* ----------------------------------------------------------- monitor_loop
\* while self.running
LoopCheck(t) ==
    /\ alive /\ pc[t] = "loop"
    /\ pc' = [pc EXCEPT ![t] = IF running THEN "sample" ELSE "exited"]
    /\ UNCHANGED <<env, alive, monitor, lv, db, calc, hist>>

HourlyDue(t) == MinuteOf(t) = 0 /\ SecondOf(t) < MONITOR_INTERVAL

\* the hourly rollup test, then time.sleep(MONITOR_INTERVAL) begins
Hourly(t) ==
    /\ alive /\ pc[t] = "hourly"
    /\ daily_stats' = IF HourlyDue(now)
                      THEN update_daily_stats(daily_stats, sessions, activity_records,
                                              DateOf(now))
                      ELSE daily_stats
    /\ pc' = [pc EXCEPT ![t] = "sleep"]
    /\ lv' = [lv EXCEPT ![t].wake = now + MONITOR_INTERVAL]
    /\ h_hourly' = IF HourlyDue(now) THEN h_hourly \cup {now} ELSE h_hourly
    /\ UNCHANGED <<env, alive, monitor, activity_records, sessions, calc, h_base,
                   h_refused, h_stop>>

\* time.sleep(MONITOR_INTERVAL) returns
Wake(t) ==
    /\ alive /\ pc[t] = "sleep"
    /\ now >= lv[t].wake
    /\ pc' = [pc EXCEPT ![t] = "loop"]
    /\ lv' = [lv EXCEPT ![t].wake = 0]
    /\ UNCHANGED <<env, alive, monitor, db, calc, hist>>

\* ------------------------------------------------------------ environment
\* the user brings another window to the foreground
SwitchWindow ==
    /\ alive /\ h_events < MaxEvents
    /\ \E title \in Titles \ {foreground} : foreground' = title
    /\ h_events' = h_events + 1
    /\ UNCHANGED <<now, sysload, alive, monitor, pc, lv, db, calc, h_recorded, h_fail,
                   h_collide, h_starts, h_crashes, h_adv, h_trace>>

\* time passes
Advance ==
    /\ h_adv < MaxAdvances
    /\ \E d \in TimeSteps : now' = now + d
    /\ h_adv' = h_adv + 1
    /\ UNCHANGED <<foreground, sysload, alive, monitor, pc, lv, db, calc, h_recorded,
                   h_events, h_fail, h_collide, h_starts, h_crashes, h_trace>>

\* the process ends without stop(): every thread and the in-memory state are gone
Crash ==
    /\ alive /\ h_crashes < MaxCrashes
    /\ alive' = FALSE
    /\ h_crashes' = h_crashes + 1
    /\ pc' = [t \in Threads |-> "dead"]
    /\ lv' = [t \in Threads |-> NoLocals]
    /\ UNCHANGED <<env, monitor, db, calc, h_recorded, h_events, h_fail, h_collide,
                   h_starts, h_adv, h_trace>>

\* the process is launched again: ActivityMonitor() over the same database file
Restart ==
    /\ ~alive
    /\ alive' = TRUE
    /\ session_id' = 0
    /\ mouse_distance' = 0
    /\ mouse_clicks' = 0
    /\ mouse_moves' = 0
    /\ keyboard_presses' = 0
    /\ window_switches' = 0
    /\ last_mouse_pos' = <<>>
    /\ last_active_window' = <<>>
    /\ mouse_listener' = "none"
    /\ keyboard_listener' = "none"
    /\ running' = FALSE
    /\ monitor_thread' = 0
    /\ last_activity_time' = now
    /\ pc' = InitPc
    /\ h_clicks' = 0 /\ h_moves' = 0 /\ h_keys' = 0 /\ h_starts' = 0
    /\ h_refused' = FALSE
    /\ h_stop' = <<>>
    /\ UNCHANGED <<env, lv, db, calc, h_events, h_fail, h_collide, h_crashes, h_adv,
                   h_hourly>>

\* ---------------------------------------------------------- specifications
Flush == \E t \in Threads : Sample(t) \/ Score(t) \/ Build(t) \/ Save(t) \/ Reset(t)
Loop == \E t \in MonitorThreads : LoopCheck(t) \/ Hourly(t) \/ Wake(t)

\* the engine of one process: callbacks, monitor thread, start() and stop()
Next ==
    \/ MouseMove
    \/ MouseClick
    \/ KeyPress
    \/ SwitchWindow
    \/ Flush
    \/ Loop
    \/ Start
    \/ StartThreads
    \/ StopBegin
    \/ EndSession
    \/ StopRollup
    \/ StopListeners
    \/ Join
    \/ Advance

Spec == Init /\ [][Next]_vars

\* start() was called at an instant and has returned: session 1 is open, the listeners
\* and the monitor thread run
RunningSince(since) ==
    /\ now = since
    /\ foreground = "A"
    /\ sysload = <<40, 60>>
    /\ alive = TRUE
    /\ session_id = 1
    /\ mouse_distance = 0
    /\ mouse_clicks = 0
    /\ mouse_moves = 0
    /\ keyboard_presses = 0
    /\ window_switches = 0
    /\ last_mouse_pos = <<>>
    /\ last_active_window = <<>>
    /\ mouse_listener = "running"
    /\ keyboard_listener = "running"
    /\ running = TRUE
    /\ monitor_thread = 1
    /\ last_activity_time = now
    /\ pc = [InitPc EXCEPT ![1] = "loop"]
    /\ lv = [t \in Threads |-> NoLocals]
    /\ activity_records = {}
    /\ sessions = start_session(<<>>, since)
    /\ daily_stats = {}
    /\ calc_args = <<>>
    /\ calc_result = 0
    /\ h_clicks = 0 /\ h_moves = 0 /\ h_keys = 0 /\ h_events = 0
    /\ h_fail = 0 /\ h_collide = FALSE /\ h_starts = 1 /\ h_crashes = 0 /\ h_adv = 0
    /\ h_refused = FALSE /\ h_stop = <<>> /\ h_hourly = {}

InitRunning == RunningSince(StartClock)

\* the engine while the monitor runs: callbacks, the monitor thread, windows and time
NextRunning ==
    \/ MouseMove
    \/ MouseClick
    \/ KeyPress
    \/ SwitchWindow
    \/ Flush
    \/ Loop
    \/ Advance

SpecRunning == InitRunning /\ [][NextRunning]_vars

\* psutil.cpu_percent(interval=1) blocks for the interval, in seconds
CpuSeconds == 1

\* Sample with its duration: get_system_usage() blocks for the interval unless it fails
TimedSample(t) ==
    /\ alive /\ pc[t] = "sample"
    /\ \E w \in WindowQueries, s \in SysQueries :
        /\ LET failed == (IF w.ok THEN 0 ELSE 1) + (IF s.ok THEN 0 ELSE 1)
           IN  /\ h_fail + failed <= MaxFailures
               /\ h_fail' = h_fail + failed
        /\ get_active_window_info(w)
        /\ lv' = [lv EXCEPT ![t].window = w.title,
                            ![t].count = IF w.ok THEN WindowCount ELSE 0,
                            ![t].cpu = s.sys[1],
                            ![t].mem = s.sys[2]]
        /\ now' = IF s.ok THEN now + CpuSeconds ELSE now
    /\ pc' = [pc EXCEPT ![t] = "score"]
    /\ UNCHANGED <<foreground, sysload, alive, db, calc, h_recorded, h_events, h_collide,
                   h_starts, h_crashes, h_adv, h_trace>>

\* time.sleep(MONITOR_INTERVAL) of the monitor thread elapses
SleepElapse ==
    /\ Cardinality(activity_records) <= MaxRecords
    /\ \E t \in MonitorThreads : pc[t] = "sleep" /\ now < lv[t].wake /\ now' = lv[t].wake
    /\ UNCHANGED <<foreground, sysload, alive, monitor, pc, lv, db, calc, hist>>

\* start() is called in the last seconds of an hour or at the top of the next
HourlyStarts == {Instant(1, 10, 59) + 58, Instant(1, 10, 59) + 59, Instant(1, 11, 0)}

InitHourly == \E since \in HourlyStarts : RunningSince(since)

\* the monitor loop on its own clock: time passes in get_system_usage and in the sleep
NextHourly ==
    \/ \E t \in MonitorThreads :
        TimedSample(t) \/ Score(t) \/ Build(t) \/ Save(t) \/ Reset(t)
    \/ Loop
    \/ SleepElapse

SpecHourly == InitHourly /\ [][NextHourly]_vars

\* the monitor thread is scheduled and its clock runs
SpecHourlyFair == SpecHourly /\ WF_vars(NextHourly)

\* the last minute of day 1
NightClock == Instant(1, 23, 59)

InitMidnight == RunningSince(NightClock)

\* the monitor started at 23:59 runs into the next day and is stopped
NextMidnight ==
    \/ Flush
    \/ Loop
    \/ StopBegin
    \/ EndSession
    \/ StopRollup
    \/ StopListeners
    \/ Join
    \/ Advance

SpecMidnight == InitMidnight /\ [][NextMidnight]_vars

\* start() and stop() with the monitor thread, within one instant of the clock
NextControl ==
    \/ Flush
    \/ \E t \in MonitorThreads : LoopCheck(t) \/ Hourly(t)
    \/ Start
    \/ StartThreads
    \/ StopBegin
    \/ EndSession
    \/ StopRollup
    \/ StopListeners
    \/ Join

SpecControl == Init /\ [][NextControl]_vars

\* the statements of the thread that calls start() and stop()
CallerStep ==
    \/ Sample(0) \/ Score(0) \/ Build(0) \/ Save(0) \/ Reset(0)
    \/ EndSession \/ StopRollup \/ StopListeners \/ Join

\* start() and stop() where the calling thread keeps running its statements
SpecControlFair == SpecControl /\ WF_vars(CallerStep)

\* the record of a tick at instant t without input, window "A" in the foreground
QuietRecord(t) ==
    [timestamp |-> t,
     mouse_distance |-> 0,
     mouse_clicks |-> 0,
     mouse_moves |-> 0,
     keyboard_presses |-> 0,
     window_switches |-> 0,
     active_windows |-> WindowCount,
     cpu_usage |-> 40,
     memory_usage |-> 60,
     busy_index |-> Round2(IdleOverride(calculate_busy_index(
                        mouse_activity_score(0, 0, 0), keyboard_activity_score(0),
                        window_activity_score(0), system_activity_score(40, 60)), FALSE)),
     is_idle |-> FALSE,
     active_window_title |-> "A"]

\* start() and then stop() have returned within the first interval: the session is
\* closed, the listeners are stopped, and the monitor thread of that start() is
\* still in the time.sleep of its first iteration (the join ended on its timeout)
InitStopped ==
    /\ now = StartClock
    /\ foreground = "A"
    /\ sysload = <<40, 60>>
    /\ alive = TRUE
    /\ session_id = 1
    /\ mouse_distance = 0
    /\ mouse_clicks = 0
    /\ mouse_moves = 0
    /\ keyboard_presses = 0
    /\ window_switches = 0
    /\ last_mouse_pos = <<>>
    /\ last_active_window = <<"A">>
    /\ mouse_listener = "stopped"
    /\ keyboard_listener = "stopped"
    /\ running = FALSE
    /\ monitor_thread = OldThread
    /\ last_activity_time = StartClock
    /\ pc = [InitPc EXCEPT ![OldThread] = "sleep"]
    /\ lv = [t \in Threads |->
                IF t = OldThread
                THEN [NoLocals EXCEPT !.wake = StartClock + MONITOR_INTERVAL]
                ELSE NoLocals]
    /\ activity_records = {QuietRecord(StartClock)}
    /\ sessions = end_session(start_session(<<>>, StartClock),
                              {QuietRecord(StartClock)}, 1, StartClock)
    /\ daily_stats = update_daily_stats({}, sessions, activity_records,
                                        DateOf(StartClock))
    /\ calc_args = <<>>
    /\ calc_result = 0
    /\ InitHistory

\* start() after a stop(), while the thread of the earlier start() still sleeps
NextRestart ==
    \/ Start
    \/ StartThreads
    \/ Flush
    \/ Loop
    \/ Advance

SpecRestart == InitStopped /\ [][NextRestart]_vars

\* the engine without user input, ended and launched again at any moment
NextCrash ==
    \/ Flush
    \/ Loop
    \/ Start
    \/ StartThreads
    \/ StopBegin
    \/ EndSession
    \/ StopRollup
    \/ StopListeners
    \/ Join
    \/ Advance
    \/ Crash
    \/ Restart

SpecCrash == Init /\ [][NextCrash]_vars

\* a direct call of calculate_busy_index with any four sub-scores
CalcBusyIndex ==
    /\ calc_args = <<>>
    /\ \E m \in ScoreSamples, k \in ScoreSamples, w \in ScoreSamples, s \in ScoreSamples :
        /\ calc_args' = <<m, k, w, s>>
        /\ calc_result' = calculate_busy_index(m, k, w, s)
    /\ UNCHANGED <<env, alive, monitor, pc, lv, db, hist>>

\* the monitor thread is about to score a tick: any counters, any load, any quiet time
InitCalc ==
    /\ foreground = "A"
    /\ sysload \in LoadSamples
    /\ alive = TRUE
    /\ \E c \in CounterSamples, q \in QuietSamples :
        /\ now = StartClock + 2 * IDLE_THRESHOLD
        /\ last_activity_time = now - q
        /\ mouse_distance = c[1] /\ mouse_clicks = c[2] /\ mouse_moves = c[3]
        /\ keyboard_presses = c[4]
        /\ h_clicks = c[2] /\ h_moves = c[3] /\ h_keys = c[4]
        /\ last_mouse_pos = IF c[3] > 0 THEN <<0, 0>> ELSE <<>>
    /\ window_switches \in {0, 10}
    /\ last_active_window = <<"A">>
    /\ session_id = 1
    /\ mouse_listener = "running"
    /\ keyboard_listener = "running"
    /\ running = TRUE
    /\ monitor_thread = 1
    /\ pc = [InitPc EXCEPT ![1] = "score"]
    /\ lv = [t \in Threads |->
                IF t = 1 THEN [NoLocals EXCEPT !.window = "A", !.count = WindowCount,
                                               !.cpu = sysload[1], !.mem = sysload[2]]
                ELSE NoLocals]
    /\ activity_records = {}
    /\ sessions = start_session(<<>>, StartClock)
    /\ daily_stats = {}
    /\ calc_args = <<>>
    /\ calc_result = 0
    /\ h_events = 0 /\ h_fail = 0 /\ h_collide = FALSE /\ h_starts = 1 /\ h_crashes = 0
    /\ h_adv = 0
    /\ h_refused = FALSE /\ h_stop = <<>> /\ h_hourly = {}

\* one tick of the monitor thread from its scoring on, and calculate_busy_index alone
NextCalc ==
    \/ CalcBusyIndex
    \/ Score(1)
    \/ Build(1)
    \/ Save(1)
    \/ Reset(1)

SpecCalc == InitCalc /\ [][NextCalc]_vars

\* one tick of the monitor thread from its scoring on, while the listeners deliver input
NextTick ==
    \/ MouseMove
    \/ MouseClick
    \/ KeyPress
    \/ Score(1)
    \/ Build(1)
    \/ Save(1)
    \/ Reset(1)

SpecTick == InitCalc /\ [][NextTick]_vars

\* the monitor after some input: no event yet, one press, one move to the origin, or
\* a move to the origin and one from there to (3, 4)
InputSamples ==
    {[pos |-> <<>>, dist |-> 0, moves |-> 0, clicks |-> 0],
     [pos |-> <<>>, dist |-> 0, moves |-> 0, clicks |-> 1],
     [pos |-> <<0, 0>>, dist |-> 0, moves |-> 1, clicks |-> 0],
     [pos |-> <<3, 4>>, dist |-> 5, moves |-> 2, clicks |-> 0]}

\* the stored window title: None, the empty title of a window without one, or "A"
StoredTitles == {<<>>, <<"">>, <<"A">>}

\* the titles GetWindowText can return
SampleTitles == Titles \cup {""}

InitInput ==
    /\ now = StartClock
    /\ foreground = "A"
    /\ sysload = <<40, 60>>
    /\ alive = TRUE
    /\ session_id = 1
    /\ \E c \in InputSamples :
        /\ mouse_distance = c.dist /\ mouse_clicks = c.clicks /\ mouse_moves = c.moves
        /\ last_mouse_pos = c.pos
        /\ h_clicks = c.clicks /\ h_moves = c.moves
    /\ keyboard_presses = 0
    /\ window_switches = 0
    /\ last_active_window \in StoredTitles
    /\ mouse_listener = "running"
    /\ keyboard_listener = "running"
    /\ running = TRUE
    /\ monitor_thread = 1
    /\ last_activity_time = now
    /\ pc = [InitPc EXCEPT ![1] = "sleep"]
    /\ lv = [t \in Threads |->
                IF t = 1 THEN [NoLocals EXCEPT !.wake = now + MONITOR_INTERVAL]
                ELSE NoLocals]
    /\ activity_records = {}
    /\ sessions = start_session(<<>>, StartClock)
    /\ daily_stats = {}
    /\ calc_args = <<>>
    /\ calc_result = <<>>
    /\ h_keys = 0 /\ h_events = 0
    /\ h_fail = 0 /\ h_collide = FALSE /\ h_starts = 1 /\ h_crashes = 0 /\ h_adv = 0
    /\ h_refused = FALSE /\ h_stop = <<>> /\ h_hourly = {}

\* get_active_window_info() is called: calc_args is the outcome of the query,
\* calc_result what the call returns
WindowSample ==
    /\ alive /\ window_switches <= MaxEvents
    /\ \E w \in {[ok |-> TRUE, title |-> x] : x \in SampleTitles}
                \cup {[ok |-> FALSE, title |-> ""]} :
        /\ get_active_window_info(w)
        /\ calc_args' = <<w.ok, w.title>>
        /\ calc_result' = <<w.title, IF w.ok THEN WindowCount ELSE 0>>
    /\ UNCHANGED <<env, alive, pc, lv, db, hist>>

\* the callbacks and the window sample, each on its own, and time
NextInput ==
    \/ MouseMove
    \/ MouseClick
    \/ KeyPress
    \/ WindowSample
    \/ Advance

SpecInput == InitInput /\ [][NextInput]_vars

\* a client of the Database: a record stamped with the clock's time is saved; the
\* client keeps the record it passed
DbSave ==
    /\ \E idle \in BOOLEAN :
        LET rec == [NoRecord EXCEPT !.timestamp = now, !.is_idle = idle,
                                    !.mouse_clicks = IF idle THEN 0 ELSE 1,
                                    !.keyboard_presses = IF idle THEN 0 ELSE 2,
                                    !.window_switches = IF idle THEN 0 ELSE 1,
                                    !.mouse_distance = IF idle THEN 0 ELSE 5,
                                    !.busy_index = IF idle THEN 0 ELSE 60]
        IN  /\ Cardinality(save_activity_record(activity_records, rec)) <= MaxRecords
            /\ activity_records' = save_activity_record(activity_records, rec)
            /\ lv' = [lv EXCEPT ![0].rec = rec]
    /\ h_collide' = (h_collide \/ \E r \in activity_records : r.timestamp = now)
    /\ UNCHANGED <<env, alive, monitor, pc, sessions, daily_stats, calc, h_recorded,
                   h_events, h_fail, h_starts, h_crashes, h_adv, h_trace>>

\* a client of the Database: start_session()
DbStartSession ==
    /\ Len(sessions) < MaxSessions
    /\ sessions' = start_session(sessions, now)
    /\ UNCHANGED <<env, alive, monitor, pc, lv, activity_records, daily_stats, calc, hist>>

\* a client of the Database: end_session(sid) with any id, open, closed or unknown
DbEndSession ==
    /\ \E sid \in 1..MaxSessions :
        sessions' = end_session(sessions, activity_records, sid, now)
    /\ UNCHANGED <<env, alive, monitor, pc, lv, activity_records, daily_stats, calc, hist>>

\* a client of the Database: get_activity_records(start_date, end_date)
DbQuery ==
    /\ \E start_date \in QueryInstants, end_date \in QueryInstants :
        /\ start_date <= end_date
        /\ calc_args' = <<start_date, end_date>>
        /\ calc_result' = get_activity_records(activity_records, start_date, end_date)
    /\ UNCHANGED <<env, alive, monitor, pc, lv, db, hist>>

\* a client of the Database: the rollup of any date is run
DbRollup ==
    /\ \E d \in RollupDates :
        daily_stats' = update_daily_stats(daily_stats, sessions, activity_records, d)
    /\ UNCHANGED <<env, alive, monitor, pc, lv, activity_records, sessions, calc, hist>>

\* time passes to a later instant
DbAdvance ==
    /\ \E t \in RollupInstants : t > now /\ now' = t
    /\ UNCHANGED <<foreground, sysload, alive, monitor, pc, lv, db, calc, hist>>

\* the sessions table before the client runs: empty, one session open since day 1
\* 01:00, or that session closed at day 1 09:00
SessionSamples ==
    {<<>>,
     start_session(<<>>, Instant(1, 1, 0)),
     end_session(start_session(<<>>, Instant(1, 1, 0)), {}, 1, Instant(1, 9, 0))}

InitRollup ==
    /\ now = StartClock
    /\ foreground = "A"
    /\ sysload = <<40, 60>>
    /\ alive = TRUE
    /\ InitMonitor
    /\ pc = InitPc
    /\ lv = [t \in Threads |-> NoLocals]
    /\ activity_records = {}
    /\ sessions \in SessionSamples
    /\ daily_stats = {}
    /\ calc_args = <<>>
    /\ calc_result = 0
    /\ InitHistory

\* records and rollups
NextRollup ==
    \/ DbSave
    \/ DbRollup
    \/ DbAdvance

SpecRollup == InitRollup /\ [][NextRollup]_vars

\* the records table before the client runs: empty, or one active record of day 1 23:30
RecordSamples ==
    {{}, {[NoRecord EXCEPT !.timestamp = Instant(1, 23, 30), !.mouse_clicks = 1,
                           !.busy_index = 60]}}

InitSessions ==
    /\ now = StartClock
    /\ foreground = "A"
    /\ sysload = <<40, 60>>
    /\ alive = TRUE
    /\ InitMonitor
    /\ pc = InitPc
    /\ lv = [t \in Threads |-> NoLocals]
    /\ activity_records \in RecordSamples
    /\ sessions = <<>>
    /\ daily_stats = {}
    /\ calc_args = <<>>
    /\ calc_result = 0
    /\ InitHistory

\* sessions opened and closed over given records
NextSessions ==
    \/ DbStartSession
    \/ DbEndSession
    \/ DbAdvance

SpecSessions == InitSessions /\ [][NextSessions]_vars

\* the hours around noon of day 1, the night after and noon of day 2
NapInstants == {Instant(1, 11, 59), Instant(1, 12, 0), Instant(1, 14, 59), Instant(1, 15, 0),
                Instant(2, 1, 0), Instant(2, 13, 0)}

\* time passes to one of those instants
NapAdvance ==
    /\ \E t \in NapInstants : t > now /\ now' = t
    /\ UNCHANGED <<foreground, sysload, alive, monitor, pc, lv, db, calc, hist>>

\* records around noon and rollups
NextNap ==
    \/ DbSave
    \/ DbRollup
    \/ NapAdvance

SpecNap == InitRollup /\ [][NextNap]_vars

\* the night after day 1: before and after 02:00
BootInstants == {Instant(2, 1, 30), Instant(2, 2, 30)}

\* time passes to an instant of that night
BootAdvance ==
    /\ \E t \in BootInstants : t > now /\ now' = t
    /\ UNCHANGED <<foreground, sysload, alive, monitor, pc, lv, db, calc, hist>>

\* sessions opened and closed into the night, and rollups over them
NextBoot ==
    \/ DbStartSession
    \/ DbEndSession
    \/ DbRollup
    \/ BootAdvance

SpecBoot == InitRollup /\ [][NextBoot]_vars

\* records and range queries
NextQuery ==
    \/ DbSave
    \/ DbQuery
    \/ DbAdvance

SpecQuery == Init /\ [][NextQuery]_vars

\* ------------------------------------------------------------------ claims
PersistedClicks == SumFn([r \in activity_records |-> r.mouse_clicks], activity_records)
PersistedMoves == SumFn([r \in activity_records |-> r.mouse_moves], activity_records)
PersistedKeys == SumFn([r \in activity_records |-> r.keyboard_presses], activity_records)

Quiescent == \A t \in Threads : ~InFlush(t)

\* C1: no event is lost.  With every query and write succeeding and no two records
\* sharing a timestamp, whenever no flush is in progress every click, move and key
\* press recorded so far is in a persisted record or still in the counters (and so
\* goes into the record of the next flush).
C1_NoEventLost ==
    (h_fail = 0 /\ ~h_collide /\ Quiescent) =>
        /\ h_clicks <= PersistedClicks + mouse_clicks
        /\ h_moves <= PersistedMoves + mouse_moves
        /\ h_keys <= PersistedKeys + keyboard_presses

\* C2: no event is double-counted.  Even with every query and write succeeding, the
\* sum of a counter over all persisted records never exceeds the number of events
\* recorded.
C2_NoDoubleCount ==
    h_fail = 0 =>
        /\ PersistedClicks <= h_clicks
        /\ PersistedMoves <= h_moves
        /\ PersistedKeys <= h_keys

OpenSessions == {i \in DOMAIN sessions : sessions[i].end_time = NULL}

\* C3: at most one Session row has end-time = null at any moment, whatever the sequence
\* of start(), stop(), crash and restart.
C3_AtMostOneOpenSession == Cardinality(OpenSessions) <= 1

\* C5: a flush whose save_activity_record returned False does not reset the counters.
C5_FailedSaveKeepsCounters ==
    [][\A t \in Threads :
        (pc[t] = "reset" /\ pc'[t] # "reset" /\ ~lv[t].saved) => UNCHANGED counters]_vars

\* C6: in every state in which a Session is closed, its active-minutes + idle-minutes
\* equals the number of persisted records with a timestamp in [start-time, end-time],
\* even with every query and write succeeding.
C6_SessionAggregation ==
    \A i \in DOMAIN sessions :
        (h_fail = 0 /\ sessions[i].end_time # NULL) =>
            sessions[i].active_minutes + sessions[i].idle_minutes =
                Cardinality(InRange(activity_records, sessions[i].start_time,
                                    sessions[i].end_time))

\* C7: in every persisted MinuteRecord, is-idle implies busy-index = 0.
C7_IdleMeansZeroBusy ==
    \A r \in activity_records : r.is_idle => r.busy_index = 0

\* an idle record whose mouse or keyboard sub-score and system sub-score are not zero
C7_Witness ==
    \E r \in activity_records :
        /\ r.is_idle
        /\ r.cpu_usage + r.memory_usage > 0
        /\ r.mouse_clicks + r.mouse_moves + r.keyboard_presses > 0

InputEventStep == h_clicks' # h_clicks \/ h_moves' # h_moves \/ h_keys' # h_keys

\* C10: once is_idle is true it stays true over every step of one monitor that is not
\* a mouse move, a mouse press or a key press: a flush step, a counter reset, a window
\* sample and the passing of time never turn idle back to false.
C10_IdleMonotonic ==
    [][(alive /\ alive' /\ is_idle(now, last_activity_time) /\ ~InputEventStep)
            => is_idle(now', last_activity_time')]_vars

\* the monitor is idle after an idle tick: its window sample and counter reset are done
C10_Witness ==
    /\ is_idle(now, last_activity_time)
    /\ pc[1] = "hourly"
    /\ \E r \in activity_records : r.is_idle /\ r.active_window_title # ""

\* the date a record belongs to when the two hours after midnight go to the day before
OwnerDay(t) == IF HourOf(t) < 2 THEN DateOf(t) - 1 ELSE DateOf(t)

\* the row is what update_daily_stats would write now
Fresh(s) == s = DailyRow(sessions, activity_records, s.stat_date)

\* C4: every MinuteRecord is counted in the totals of exactly one DailyStat: the rollup
\* of date D counts the records of D from 02:00 on and those of D+1 before 02:00, and
\* no record of D before 02:00.
C4_RecordInExactlyOneDay ==
    \A s \in daily_stats :
        Fresh(s) =>
            s.total_active_minutes + s.total_idle_minutes =
                Cardinality({r \in activity_records : OwnerDay(r.timestamp) = s.stat_date})

\* C8: calculate_busy_index returns a value in [0,100] for any four sub-scores, and the
\* busy_index of every persisted MinuteRecord is in [0,100].
C8_BusyIndexRange ==
    /\ calc_args # <<>> => (calc_result >= 0 /\ calc_result <= 300000)
    /\ \A r \in activity_records : r.busy_index >= 0 /\ r.busy_index <= 10000

\* four sub-scores of 200 points were clamped, and a record at the top of the range exists
C8_Witness ==
    /\ calc_args = <<60000, 60000, 60000, 60000>>
    /\ calc_result = 300000
    /\ \E r \in activity_records : r.busy_index = 10000 /\ r.mouse_clicks = 1000

\* C9: is_idle is true if and only if now - last_activity_time is strictly greater than
\* the idle threshold: false at exactly the threshold and before, true after.
C9_IdleIffOverThreshold ==
    \A t \in MonitorThreads :
        pc[t] \in {"build", "save", "reset"} =>
            /\ (now - last_activity_time <= IDLE_THRESHOLD) => ~lv[t].idle
            /\ (now - last_activity_time > IDLE_THRESHOLD) => lv[t].idle

\* is_idle was evaluated at exactly last_activity_time + threshold
C9_Witness ==
    /\ pc[1] = "build"
    /\ now - last_activity_time = IDLE_THRESHOLD
    /\ ~lv[1].idle

C12_OneRecordPerTimestamp ==
    /\ \A r1 \in activity_records, r2 \in activity_records :
        r1.timestamp = r2.timestamp => r1 = r2
    /\ lv[0].rec.timestamp # NULL => lv[0].rec \in activity_records

\* a save hit the timestamp of a stored record, and one record is stored
C12_Witness ==
    /\ h_collide
    /\ Cardinality(activity_records) = 1
    /\ lv[0].rec \in activity_records

C19_ClosedSessionTimes ==
    \A i \in DOMAIN sessions :
        sessions[i].end_time # NULL =>
            /\ sessions[i].end_time >= sessions[i].start_time
            /\ sessions[i].duration_minutes >= 0

\* a session was closed hours after it was opened, over one record
C19_Witness ==
    \E i \in DOMAIN sessions :
        /\ sessions[i].end_time > sessions[i].start_time
        /\ sessions[i].duration_minutes > 0
        /\ sessions[i].active_minutes = 1

\* the sequence holds exactly the records of the range, in ascending timestamp order
QueryResult(res, recs, lo, hi) ==
    /\ {res[i] : i \in DOMAIN res} = {r \in recs : lo <= r.timestamp /\ r.timestamp <= hi}
    /\ Len(res) = Cardinality({r \in recs : lo <= r.timestamp /\ r.timestamp <= hi})
    /\ \A i \in DOMAIN res, j \in DOMAIN res : i < j => res[i].timestamp <= res[j].timestamp

\* C20: get_activity_records(start, end) returns exactly the persisted records with a
\* timestamp in the range, in ascending order, and an empty sequence when there is none.
C20_QueryRange ==
    [][calc' # calc =>
        QueryResult(calc_result', activity_records, calc_args'[1], calc_args'[2])]_vars

\* a query returned two records, one at each end of its range
C20_Witness ==
    /\ calc_args # <<>>
    /\ Len(calc_result) = 2
    /\ calc_result[1].timestamp = calc_args[1]
    /\ calc_result[2].timestamp = calc_args[2]
    /\ calc_args[1] < calc_args[2]

\* C13: start() on a running monitor is without effect: while the monitor runs, no step
\* inserts a Session row, changes the session id, starts a listener or starts a
\* monitor thread.
C13_StartWhileRunning ==
    [][running =>
        /\ Len(sessions') = Len(sessions)
        /\ session_id' = session_id
        /\ listeners' = listeners
        /\ monitor_thread' = monitor_thread
        /\ pc'[0] # "start_threads"
        /\ \A t \in MonitorThreads : pc[t] = "unborn" => pc'[t] = "unborn"]_vars

\* start() was called on the running monitor, which still has its one session and thread
C13_Witness ==
    /\ h_refused /\ running
    /\ Len(sessions) = 1 /\ session_id = 1
    /\ monitor_thread = 1 /\ pc[1] # "unborn"

StopOrder == <<"flush", "close", "rollup", "unsubscribe">>

IsPrefix(s, t) == Len(s) <= Len(t) /\ \A i \in 1..Len(s) : s[i] = t[i]

\* C15: stop() does its steps in this order: the final flush is written, the open
\* Session is closed, the rollup of today is run, the listeners are stopped; with every
\* write succeeding the close counts the record of the final flush.
C15_StopOrder ==
    /\ IsPrefix(h_stop, StopOrder)
    /\ pc[0] = "join" => h_stop = StopOrder
    /\ \A i \in DOMAIN sessions :
        (h_fail = 0 /\ sessions[i].end_time # NULL) =>
            sessions[i].active_minutes + sessions[i].idle_minutes >= 1

\* stop() has done its four steps: session closed over one record, row of today written
C15_Witness ==
    /\ h_stop = StopOrder /\ pc[0] = "join" /\ h_fail = 0
    /\ sessions[1].end_time # NULL /\ sessions[1].active_minutes = 1
    /\ \E s \in daily_stats : s.stat_date = DateOf(now) /\ s.work_sessions = 1
    /\ mouse_listener = "stopped" /\ keyboard_listener = "stopped"

\* C16: when the engine has run across midnight of date D and stop() has returned
\* before D+1 02:00 with every write succeeding, DailyStat(D) is persisted and its
\* totals count the records written from D+1 00:00 to the stop.
C16_MidnightCarryOver ==
    LET D == DateOf(NightClock)
        late == {r \in activity_records : DateOf(r.timestamp) = D + 1}
    IN  (h_stop = StopOrder /\ pc[0] = "ready" /\ h_fail = 0 /\ late # {}
            /\ HourOf(now) < 2) =>
            \E s \in daily_stats :
                /\ s.stat_date = D
                /\ s.total_active_minutes + s.total_idle_minutes =
                       Cardinality(DayRecords(activity_records, D))

HourStart(t) == t - (t % 3600)

\* C17: while the monitor loop runs, each iteration taking the 60 s sleep plus the time
\* of its own sampling, the daily rollup is triggered exactly once in every clock hour:
\* once minute 0 of an hour the loop was running in is over, one trigger lies in the hour.
C17_HourlyOnce ==
    LET H == HourStart(now)
    IN  (running /\ h_fail = 0 /\ sessions[1].start_time <= H
            /\ now >= H + MONITOR_INTERVAL) =>
            Cardinality({x \in h_hourly : x >= H /\ x < H + 3600}) = 1

\* the instants at which a tick of the loop can write: so many sleeps and samplings
\* after start()
LoopInstants ==
    {since + k * MONITOR_INTERVAL + j * CpuSeconds :
        since \in HourlyStarts, k \in 0..(MaxRecords + MaxFailures),
        j \in 0..(MaxRecords + MaxFailures + 1)}

\* C18: a failed write never stops the monitor loop: the monitor thread never ends while
\* running is set, and after a tick whose write failed at instant T the next tick
\* begins at T plus the interval.
C18_FailedWriteKeepsLoop ==
    /\ [](\A t \in MonitorThreads : running => pc[t] # "exited")
    /\ [](\A t \in MonitorThreads : pc[t] = "reset" => now \in LoopInstants)
    /\ \A t \in MonitorThreads : \A T \in LoopInstants :
        (pc[t] = "reset" /\ ~lv[t].saved /\ now = T)
            ~> (pc[t] = "sample" /\ running /\ now = T + MONITOR_INTERVAL)

\* the write of the first tick failed and the second tick has begun one interval later
C18_Witness ==
    /\ running /\ pc[1] = "sample"
    /\ h_fail = 1 /\ activity_records = {}
    /\ now = sessions[1].start_time + CpuSeconds + MONITOR_INTERVAL

\* C21: every operation that increments an accumulator counter also sets
\* last_activity_time to the time of the operation: a mouse move, a mouse press, a key
\* press and a window sample that counts a window switch.
C21_CounterMarksActivity ==
    [][(\/ mouse_distance' > mouse_distance
        \/ mouse_clicks' > mouse_clicks
        \/ mouse_moves' > mouse_moves
        \/ keyboard_presses' > keyboard_presses
        \/ window_switches' > window_switches) => last_activity_time' = now]_vars

\* C22: a window sample of a title counts one window switch exactly when the title
\* differs from the stored one, the empty string included, and stores the title.
C22_WindowSwitchCounted ==
    [][(calc' # calc /\ calc_args'[1] /\ last_active_window # <<>>) =>
          /\ window_switches' = IF last_active_window[1] # calc_args'[2]
                                THEN window_switches + 1 ELSE window_switches
          /\ last_active_window' = <<calc_args'[2]>>]_vars

ClickStep == h_events' # h_events /\ h_moves' = h_moves /\ h_keys' = h_keys

\* C23: a mouse click callback adds one to mouse_clicks when pressed is true and leaves
\* every counter as it was when pressed is false.
C23_ClickCounted ==
    [][ClickStep =>
          IF h_clicks' # h_clicks
          THEN /\ mouse_clicks' = mouse_clicks + 1
               /\ UNCHANGED <<mouse_distance, mouse_moves, keyboard_presses,
                              window_switches>>
          ELSE UNCHANGED counters]_vars

\* a release was delivered after the one press: the count is still one
C23_Witness ==
    /\ h_events = 1 /\ h_clicks = 1 /\ h_keys = 0 /\ h_moves = 0
    /\ mouse_clicks = 1 /\ last_mouse_pos = <<>>

\* C24: a mouse move adds the distance from the previous position to mouse_distance if
\* and only if there is a previous position, the origin included; it always stores the
\* new position and adds one to mouse_moves. The two positions are 5 apart.
C24_MoveDistance ==
    [][h_moves' # h_moves =>
          /\ last_mouse_pos' \in Positions
          /\ mouse_moves' = mouse_moves + 1
          /\ mouse_distance' =
                IF last_mouse_pos = <<>> THEN mouse_distance
                ELSE IF last_mouse_pos' = last_mouse_pos THEN mouse_distance
                ELSE mouse_distance + 5]_vars

\* moves from the origin to (3, 4) and back: the distance is 10, the net displacement 0
C24_Witness ==
    /\ h_events = 1 /\ mouse_moves = 3
    /\ last_mouse_pos = <<0, 0>> /\ mouse_distance = 10

\* the aggregation window of a date: [D 00:00:00, (D+1) 02:00:00)
Window(recs, d) ==
    {r \in recs : r.timestamp >= Instant(d, 0, 0) /\ r.timestamp < Instant(d + 1, 2, 0)}

\* C25: the row update_daily_stats(D) writes sums the active and idle minutes, clicks,
\* presses, window switches and mouse distance over exactly the records with
\* D 00:00:00 <= timestamp < (D+1) 02:00:00, and its active and idle minutes add up to
\* the number of those records.
C25_TotalsOverWindow ==
    [][\A s \in daily_stats' \ daily_stats :
          LET W == Window(activity_records, s.stat_date)
          IN  /\ s.total_active_minutes = Cardinality({r \in W : ~r.is_idle})
              /\ s.total_idle_minutes = Cardinality({r \in W : r.is_idle})
              /\ s.total_active_minutes + s.total_idle_minutes = Cardinality(W)
              /\ s.total_mouse_clicks = SumFn([r \in W |-> r.mouse_clicks], W)
              /\ s.total_key_presses = SumFn([r \in W |-> r.keyboard_presses], W)
              /\ s.total_window_switches = SumFn([r \in W |-> r.window_switches], W)
              /\ s.total_mouse_distance = SumFn([r \in W |-> r.mouse_distance], W)]_vars

\* records at exactly day 2 00:00:00 and day 2 02:00:00: the row of day 1 counts the
\* first alone, the row of day 2 counts both
C25_Witness ==
    /\ {r.timestamp : r \in activity_records} = {Instant(2, 0, 0), Instant(2, 2, 0)}
    /\ \A r \in activity_records : ~r.is_idle
    /\ \E s \in daily_stats :
        /\ s.stat_date = 1 /\ Fresh(s)
        /\ s.total_active_minutes = 1 /\ s.total_key_presses = 2
    /\ \E s \in daily_stats :
        /\ s.stat_date = 2 /\ Fresh(s)
        /\ s.total_active_minutes = 2 /\ s.total_key_presses = 4

\* the sessions attributed to a date: session_date D, or D+1 with a start hour before 2
Attributed(sess, d) ==
    {i \in DOMAIN sess :
        \/ sess[i].session_date = d
        \/ sess[i].session_date = d + 1 /\ HourOf(sess[i].start_time) < 2}

\* C26: the row update_daily_stats(D) writes has as last_shutdown_time the latest
\* end_time of the sessions attributed to D, replaced by (D+1) 02:00 when later; open
\* sessions contribute nothing and the time is null when every such session is open.
C26_LastShutdown ==
    [][\A s \in daily_stats' \ daily_stats :
          LET closed == {i \in Attributed(sessions, s.stat_date) :
                            sessions[i].end_time # NULL}
          IN  s.last_shutdown_time =
                IF closed = {} THEN NULL
                ELSE Min(SetMax({sessions[i].end_time : i \in closed}),
                         Instant(s.stat_date + 1, 2, 0))]_vars

\* the session of day 1 was closed on day 2 at 02:30: the row of day 1 has 02:00
C26_Witness ==
    /\ Len(sessions) >= 1 /\ sessions[1].session_date = 1
    /\ sessions[1].end_time = Instant(2, 2, 30)
    /\ \E s \in daily_stats :
        s.stat_date = 1 /\ Fresh(s) /\ s.last_shutdown_time = Instant(2, 2, 0)

\* C27: the row update_daily_stats(D) writes has as first_boot_time the earliest
\* start_time of the sessions whose session_date is D, or D+1 with a start hour before
\* 02:00, and null when there is none.
C27_FirstBoot ==
    [][\A s \in daily_stats' \ daily_stats :
          LET att == Attributed(sessions, s.stat_date)
          IN  s.first_boot_time =
                IF att = {} THEN NULL
                ELSE SetMin({sessions[i].start_time : i \in att})]_vars

\* the only session was started on day 2 at 01:30: it is the first boot of day 1
C27_Witness ==
    /\ Len(sessions) = 1 /\ sessions[1].start_time = Instant(2, 1, 30)
    /\ \E s \in daily_stats :
        s.stat_date = 1 /\ Fresh(s) /\ s.first_boot_time = Instant(2, 1, 30)

C29_CaptureFailureKeepsTick ==
    [][\A t \in Threads :
          /\ (pc[t] = "sample" /\ pc'[t] # "sample" /\ h_fail' > h_fail) =>
                /\ pc'[t] = "score"
                /\ UNCHANGED <<mouse_distance, mouse_clicks, mouse_moves, keyboard_presses>>
                /\ \/ lv'[t].window = "" /\ lv'[t].count = 0
                   \/ lv'[t].cpu = 0 /\ lv'[t].mem = 0
          /\ (pc[t] = "build" /\ pc'[t] = "save") =>
                /\ lv'[t].rec.active_window_title = lv[t].window
                /\ lv'[t].rec.active_windows = lv[t].count
                /\ lv'[t].rec.cpu_usage = lv[t].cpu
                /\ lv'[t].rec.memory_usage = lv[t].mem
                /\ lv'[t].rec.mouse_distance = mouse_distance
                /\ lv'[t].rec.mouse_clicks = mouse_clicks
                /\ lv'[t].rec.mouse_moves = mouse_moves
                /\ lv'[t].rec.keyboard_presses = keyboard_presses
          /\ (pc[t] = "save" /\ pc'[t] = "reset" /\ lv'[t].saved) =>
                lv[t].rec \in activity_records']_vars

\* the window query of a tick failed: its record has the defaults, the load that was
\* measured and the one click that was made
C29_Witness ==
    /\ h_fail = 1 /\ h_clicks = 1
    /\ \E r \in activity_records :
        /\ r.active_window_title = "" /\ r.active_windows = 0
        /\ r.cpu_usage = 40 /\ r.memory_usage = 60
        /\ r.mouse_clicks = 1

\* C30: with a flush interval of 60 s and an idle threshold of 600 s, a flush that scores
\* 60 s after the last event with at least one click, move or key press in the counters
\* gives is_idle = false and a busy index above 0, also after rounding; a flush that
\* scores 660 s after the last event gives is_idle = true and a busy index of 0; the
\* record is built with these values.
C30_FlushAfterEvent ==
    [][\A t \in Threads :
          /\ (pc[t] = "score" /\ pc'[t] = "build") =>
                /\ (/\ now - last_activity_time = MONITOR_INTERVAL
                    /\ mouse_clicks + mouse_moves + keyboard_presses >= 1) =>
                        (~lv'[t].idle /\ lv'[t].busy > 0 /\ Round2(lv'[t].busy) > 0)
                /\ now - last_activity_time = IDLE_THRESHOLD + MONITOR_INTERVAL =>
                        (lv'[t].idle /\ lv'[t].busy = 0)
          /\ (pc[t] = "build" /\ pc'[t] = "save") =>
                /\ lv'[t].rec.is_idle = lv[t].idle
                /\ lv'[t].rec.busy_index = Round2(lv[t].busy)]_vars

\* one mouse move, a failed system query and a flush 60 s later: the record is not idle
\* and its busy index is 0.01
C30_Witness ==
    /\ last_activity_time = StartClock /\ h_moves = 1
    /\ \E r \in activity_records :
        /\ r.timestamp = StartClock + MONITOR_INTERVAL
        /\ r.mouse_moves = 1 /\ r.cpu_usage = 0 /\ r.memory_usage = 0
        /\ ~r.is_idle /\ r.busy_index = 1

\* ------------------------------------------------------------------- C31
\* C31: a stop() call on a running engine always returns: once it has begun,
\* the calling thread reaches the end of stop() with the four steps done,
\* whatever the monitor thread is doing, because the join is bounded by its
\* timeout.
C31_StopReturns ==
    (pc[0] = "sample" /\ ~running) ~> (pc[0] = "ready" /\ h_stop = StopOrder)

\* stop() has returned while the monitor thread is still between two ticks
C31_Witness ==
    /\ pc[0] = "ready" /\ h_stop = StopOrder /\ ~running
    /\ pc[monitor_thread] \notin {"exited", "unborn"}

\* ------------------------------------------------------------------- C32
\* C32: get_current_status reports a session id only for an open session:
\* whenever the reported running flag is false, the reported session id is
\* either absent or the id of a session row that is still open.
C32_StatusSessionOpen ==
    LET st == get_current_status
    IN  (~st.running /\ pc[0] = "ready") =>
            \/ st.session_id = 0
            \/ /\ st.session_id \in DOMAIN sessions
               /\ sessions[st.session_id].end_time = NULL

\* ------------------------------------------------------------------- C37
\* C37: if creating the Session row fails in start(), the engine stays
\* inactive: as long as the session id is the failure value, the running flag
\* is false, start() has returned, no listener runs, and no step starts a
\* listener or a monitor thread or performs a step of stop().
C37_FailedStartInactive ==
    /\ [](session_id = -1 =>
            /\ ~running
            /\ pc[0] = "ready"
            /\ mouse_listener # "running"
            /\ keyboard_listener # "running")
    /\ [][session_id = -1 =>
            UNCHANGED <<running, listeners, monitor_thread, h_starts, h_stop>>]_vars

\* start() has failed on a fresh engine: nothing was started
C37_Witness ==
    /\ session_id = -1 /\ h_fail = 1 /\ sessions = <<>>
    /\ ~running /\ pc[0] = "ready" /\ h_starts = 0
    /\ \A t \in MonitorThreads : pc[t] = "unborn"

\* ------------------------------------------------------------------- C33
\* the thread is inside an iteration of monitor_loop: past the loop test and
\* before the sleep
Iterating(t) == InFlush(t) \/ pc[t] = "hourly"

\* C33: at most one scheduler loop is active at any time: no two threads are
\* inside an iteration of monitor_loop together, stop() followed by start()
\* during the sleep of the earlier thread included.
C33_OneLoop ==
    \A t1, t2 \in MonitorThreads : (Iterating(t1) /\ Iterating(t2)) => t1 = t2

\* ------------------------------------------------------------------- C34
\* the busy index that the stored fields of a record give
RecordBusy(r) ==
    Round2(IdleOverride(
        calculate_busy_index(
            mouse_activity_score(r.mouse_distance, r.mouse_clicks, r.mouse_moves),
            keyboard_activity_score(r.keyboard_presses),
            window_activity_score(r.window_switches),
            system_activity_score(r.cpu_usage, r.memory_usage)),
        r.is_idle))

\* C34: every persisted MinuteRecord is an internally consistent snapshot:
\* its busy index is the value computed from the counter values stored in the
\* same record, also when callbacks run between the scoring and the building
\* of the record.
C34_ConsistentSnapshot ==
    h_fail = 0 => \A r \in activity_records : r.busy_index = RecordBusy(r)

\* ------------------------------------------------------------------- C38
\* C38: reset_counters changes only the five counters: the step that resets
\* them leaves the last mouse position, the last window title, the last
\* activity time, the session id and the running flag as they are, so the
\* first mouse move after a flush that followed a move adds the distance from
\* the position before the flush.
C38_ResetFrame ==
    /\ [][\A t \in Threads :
            (pc[t] = "reset" /\ pc'[t] # "reset") =>
                /\ counters' = <<0, 0, 0, 0, 0>>
                /\ UNCHANGED <<last_mouse_pos, last_active_window, last_activity_time,
                               session_id, running>>]_vars
    /\ [][(pc[1] = "hourly" /\ mouse_moves = 0 /\ mouse_moves' = 1 /\ h_moves > 0) =>
            /\ last_mouse_pos # <<>>
            /\ mouse_distance' = Distance(last_mouse_pos, last_mouse_pos')]_vars

\* after a flush whose tick had moves ending at the origin, one move to (3, 4)
\* has added the distance 5
C38_Witness ==
    /\ pc[1] = "hourly" /\ h_moves > 1
    /\ mouse_moves = 1 /\ mouse_distance = 5 /\ last_mouse_pos = <<3, 4>>

\* ------------------------------------------------------------------- C35
\* C35: when stop() returns, every input event accepted by the listeners has
\* been persisted: after a stop() without any failed call, no click, move or
\* key press is left in the in-memory counters only.
C35_StopPersistsAll ==
    (pc[0] = "ready" /\ ~running /\ h_stop = StopOrder /\ h_fail = 0) =>
        /\ mouse_clicks = 0
        /\ mouse_moves = 0
        /\ keyboard_presses = 0

\* ------------------------------------------------------------------- C36
\* C36: every Session is counted in the work-session count of one calendar
\* date only: when every DailyStat row is up to date, the counts of the rows
\* add up to no more than the number of sessions, since no session is
\* attributed both to D by update_daily_stats(D) and to D-1 by
\* update_daily_stats(D-1).
C36_SessionCountedOnce ==
    (\A s \in daily_stats : Fresh(s)) =>
        SumFn([s \in daily_stats |-> s.work_sessions], daily_stats) <= Len(sessions)

\* ------------------------------------------------------------------- C39
\* C39: in every DailyStat row written by update_daily_stats, when the
\* first-boot time and the last-shutdown time are both set the last-shutdown
\* time is not before the first-boot time.
C39_ShutdownAfterBoot ==
    [][\A s \in daily_stats' \ daily_stats :
          (s.first_boot_time # NULL /\ s.last_shutdown_time # NULL) =>
              s.last_shutdown_time >= s.first_boot_time]_vars

\* a session of the small hours, closed after 02:00: the row of the day before
\* has the boot at 01:30 and the shutdown at the cap, 02:00
C39_Witness ==
    \E s \in daily_stats :
        /\ s.stat_date = 1 /\ Fresh(s)
        /\ s.first_boot_time = Instant(2, 1, 30)
        /\ s.last_shutdown_time = Instant(2, 2, 0)

\* ------------------------------------------------------------------- C40
\* C40: in every DailyStat row written by update_daily_stats the nap minutes
\* are at most the total idle minutes, although the nap scan includes the end
\* of the window and the totals scan excludes it.
C40_NapWithinIdle ==
    [][\A s \in daily_stats' \ daily_stats :
          s.nap_minutes <= s.total_idle_minutes]_vars

\* an idle record at the very end of the window of day 1 and one at day 2
\* 13:00: the row of day 1 counts neither, the row of day 2 counts both as
\* idle and one as nap
C40_Witness ==
    /\ \E r \in activity_records : r.timestamp = Instant(2, 2, 0) /\ r.is_idle
    /\ \E s \in daily_stats :
        /\ s.stat_date = 1 /\ Fresh(s)
        /\ s.nap_minutes = 0 /\ s.total_idle_minutes = 0
    /\ \E s \in daily_stats :
        /\ s.stat_date = 2 /\ Fresh(s)
        /\ s.nap_minutes = 1 /\ s.total_idle_minutes = 2

====
